---------------------------- MODULE Spec2Model ----------------------------
(***************************************************************************)
(* Model of the health-report explainer: the rule-based interpreter        *)
(* (src/src/interpreter.py), the keyword chatbot (src/src/chatbot.py), the *)
(* report parser and the encrypted SQLite store (src/src/data_pipeline.py),*)
(* the synthetic data generator (src/src/synthetic_data.py) and the        *)
(* dashboard run (src/app.py).                                             *)
(*                                                                         *)
(* Numbers are fixed-point with two decimals: the measurement 10.8 is the  *)
(* integer 1080.  Strings that the code inspects (lower(), substring and   *)
(* regex matching) are sequences of one-character strings; strings that    *)
(* the code only copies or compares are TLA+ strings.                      *)
(***************************************************************************)
EXTENDS Integers, Sequences, FiniteSets, TLC

VARIABLES
    row,            \* interpreter: the pd.Series given to interpret_row
    row_flags,      \* interpreter: the flags interpret_row got from rule_based_flags
    insight,        \* interpreter: the Insight returned, or NoInsight
    question,       \* chatbot: the question typed
    latest_row,     \* chatbot: the latest report row
    reply,          \* chatbot: the answer returned, or NoReply
    report_lines,   \* parser: the lines the report text is made of
    report_text,    \* parser: the report text
    parsed,         \* parser: the frame parse_report_text returned, or NotParsed
    synth_n,        \* generator: n
    dataset,        \* generator: the frame returned, or NotGenerated
    key_file,       \* store: the key in config.key_path, NoKey when there is no file
    db_exists,      \* store: config.db_path exists (with its table reports)
    reports,        \* store: the rows of table reports, in rowid order
    saved,          \* store: the calls of save_report so far
    load_arg,       \* store: the patient_id of the last load_reports
    loaded,         \* store: what the last load_reports returned, or NotLoaded
    synthetic_all,  \* dashboard: the synthetic data set
    mode,           \* dashboard: "synthetic" or "upload" in the last run
    patient_filter, \* dashboard: the patient selected or typed in the last run
    df,             \* dashboard: the frame of the last run
    latest,         \* dashboard: the latest row of the last run, or NoRow
    shown,          \* dashboard: the insight, warning and answer of the last run
    sessions        \* sessions: each session's place in encrypt_payload or decrypt_payload

interpVars == <<row, row_flags, insight>>
chatVars == <<question, latest_row, reply>>
parseVars == <<report_lines, report_text, parsed>>
synthVars == <<synth_n, dataset>>
storeVars == <<key_file, db_exists, reports, saved>>
loadVars == <<load_arg, loaded>>
appVars == <<synthetic_all, mode, patient_filter, df, latest, shown>>
sessVars == <<sessions>>
vars == <<interpVars, chatVars, parseVars, synthVars, storeVars, loadVars, appVars, sessVars>>

(***************************************************************************)
(* Values of a pandas cell.                                                *)
(***************************************************************************)
Den == 10 * 10

Num(n) == [k |-> "num", n |-> n, s |-> <<>>]
NaN == [k |-> "nan", n |-> 0, s |-> <<>>]
NoneV == [k |-> "none", n |-> 0, s |-> <<>>]
Str(s) == [k |-> "str", n |-> 0, s |-> s]

\* row.get(field, default)
Get(r, f, d) == IF f \in DOMAIN r THEN r[f] ELSE d

\* x < y and x > y of Python/numpy on floats: every comparison with NaN is False
Lt(x, y) == x.k = "num" /\ y.k = "num" /\ x.n < y.n
Gt(x, y) == x.k = "num" /\ y.k = "num" /\ x.n > y.n

\* x - y on floats
Sub(x, y) == IF x.k = "num" /\ y.k = "num" THEN Num(x.n - y.n) ELSE NaN

\* max(0, x) of Python: x replaces 0 only when x > 0 is True, so NaN gives 0
PyMax0(x) == IF Gt(x, Num(0)) THEN x ELSE Num(0)

\* int(x) on a number: truncation toward zero (whole units)
IntOf(x) == IF x.n >= 0 THEN x.n \div Den ELSE -((-x.n) \div Den)

(***************************************************************************)
(* Character strings.                                                      *)
(***************************************************************************)
UpperChars == <<"A","B","C","D","E","F","G","H","I","J","K","L","M",
                "N","O","P","Q","R","S","T","U","V","W","X","Y","Z">>
LowerChars == <<"a","b","c","d","e","f","g","h","i","j","k","l","m",
                "n","o","p","q","r","s","t","u","v","w","x","y","z">>

LowerChar(c) ==
    IF \E i \in DOMAIN UpperChars : UpperChars[i] = c
    THEN LowerChars[CHOOSE i \in DOMAIN UpperChars : UpperChars[i] = c]
    ELSE c

UpperChar(c) ==
    IF \E i \in DOMAIN LowerChars : LowerChars[i] = c
    THEN UpperChars[CHOOSE i \in DOMAIN LowerChars : LowerChars[i] = c]
    ELSE c

\* str.lower(), str.upper(), str.capitalize()
Lower(s) == [i \in DOMAIN s |-> LowerChar(s[i])]
Upper(s) == [i \in DOMAIN s |-> UpperChar(s[i])]
Capitalize(s) == [i \in DOMAIN s |-> IF i = 1 THEN UpperChar(s[i]) ELSE LowerChar(s[i])]

\* str(value) as far as the interpreter uses it: the text of a string cell,
\* "nan" for a missing cell
StrOf(x) == IF x.k = "str" THEN x.s ELSE IF x.k = "nan" THEN <<"n","a","n">> ELSE <<"#">>

(***************************************************************************)
(* src/src/interpreter.py                                                  *)
(***************************************************************************)
NoInsight == [severity_score |-> -1]

\* Mutant: the WBC comparison written as >= instead of >.
rule_based_flags_wbc_ge(r) ==
    LET female == Lower(StrOf(Get(r, "Gender", Str(<<>>)))) = <<"f","e","m","a","l","e">>
        hb == Get(r, "Hemoglobin", Num(99 * Den))
        wbc == Get(r, "WBC", Num(0))
    IN  [anemia |-> (female /\ Lt(hb, Num(12 * Den))) \/ (~female /\ Lt(hb, Num(13 * Den))),
         infection |-> wbc.k = "num" /\ wbc.n >= 11 * Den,
         cardio |-> \/ Gt(Get(r, "LDL", Num(0)), Num(130 * Den))
                    \/ Gt(Get(r, "Triglycerides", Num(0)), Num(150 * Den))
                    \/ Gt(Get(r, "Cholesterol", Num(0)), Num(200 * Den))]

rule_based_flags(r) ==
    LET female == Lower(StrOf(Get(r, "Gender", Str(<<>>)))) = <<"f","e","m","a","l","e">>
        hb == Get(r, "Hemoglobin", Num(99 * Den))
    IN  [anemia |-> (female /\ Lt(hb, Num(12 * Den))) \/ (~female /\ Lt(hb, Num(13 * Den))),
         infection |-> Gt(Get(r, "WBC", Num(0)), Num(11 * Den)),
         cardio |-> \/ Gt(Get(r, "LDL", Num(0)), Num(130 * Den))
                    \/ Gt(Get(r, "Triglycerides", Num(0)), Num(150 * Den))
                    \/ Gt(Get(r, "Cholesterol", Num(0)), Num(200 * Den))]

\* The running sum, in units of 1/(100*Den): the weights 8, 0.2, 0.15 and 4
\* are 800, 20, 15 and 400 hundredths.
RawScore(r) ==
    LET a == PyMax0(Sub(Num(12 * Den), Get(r, "Hemoglobin", Num(12 * Den)))).n
        b == PyMax0(Sub(Get(r, "LDL", Num(100 * Den)), Num(100 * Den))).n
        c == PyMax0(Sub(Get(r, "Triglycerides", Num(120 * Den)), Num(120 * Den))).n
        d == PyMax0(Sub(Get(r, "WBC", Num(7 * Den)), Num(10 * Den))).n
        old == IF IntOf(Get(r, "Age", Num(30 * Den))) > 50 THEN 7 * 100 * Den ELSE 0
    IN  800 * a + 20 * b + 15 * c + 400 * d + old

\* Mutant: a clip that forgets the upper limit.
ClipLowerOnly(score, lo, hi) == IF score < lo * 100 * Den THEN lo * 100 * Den ELSE score

\* np.clip(score, lo, hi), score in units of 1/(100*Den)
Clip(score, lo, hi) ==
    IF score < lo * 100 * Den THEN lo * 100 * Den
    ELSE IF score > hi * 100 * Den THEN hi * 100 * Den ELSE score

severity_score(r) == Clip(RawScore(r), 0, 100) \div (100 * Den)

TipIron == "Add iron-rich foods (spinach, lentils, dates) and vitamin C sources."
TipCardio == "Reduce fried foods, increase fiber, and aim for 150 min/week exercise."
TipInfection == "Hydrate well, prioritize sleep, and consult a clinician if fever persists."
TipDefault == "Maintain balanced diet, regular movement, and annual preventive checkups."

\* Mutant: the three tips chained with elif, so that only the first applies
\* and the anemia tip comes last.
lifestyle_suggestions_elif(flags) ==
    IF flags.cardio THEN <<TipCardio>>
    ELSE IF flags.infection THEN <<TipInfection>>
    ELSE IF flags.anemia THEN <<TipIron>>
    ELSE <<TipDefault>>

lifestyle_suggestions(flags) ==
    LET tips == (IF flags.anemia THEN <<TipIron>> ELSE <<>>)
                \o (IF flags.cardio THEN <<TipCardio>> ELSE <<>>)
                \o (IF flags.infection THEN <<TipInfection>> ELSE <<>>)
    IN  IF tips = <<>> THEN <<TipDefault>> ELSE tips

\* age_band: the decade's first year (the band is lo .. lo + 9)
age_band(age) == (age \div 10) * 10

SayAnemia == "Your hemoglobin is below the expected range and may indicate mild anemia."
SayHbFine == "Your hemoglobin appears within expected range."
SayLipid == "Your lipid values are borderline high for age group {lo}-{lo+9}."
SayWbc == "Your WBC is elevated, which can appear in infection or inflammation."
SayScore == "Current overall severity score: {score}/100."

\* The narrative is the list of its sentences, each with the number put in it.
Part(text, arg) == [text |-> text, arg |-> arg]

build_narrative(r, flags, score) ==
    <<IF flags.anemia THEN Part(SayAnemia, 0) ELSE Part(SayHbFine, 0)>>
    \o (IF flags.cardio
        THEN <<Part(SayLipid, age_band(IntOf(Get(r, "Age", Num(30 * Den)))))>>
        ELSE <<>>)
    \o (IF flags.infection THEN <<Part(SayWbc, 0)>> ELSE <<>>)
    \o <<Part(SayScore, score)>>

\* Risks are in hundredths: 0.75 is 75.
interpret_row(r) ==
    LET flags == rule_based_flags(r)
        score == severity_score(r)
    IN  [anemia_risk |-> IF flags.anemia THEN 75 ELSE 15,
         cardio_risk |-> IF flags.cardio THEN 72 ELSE 20,
         infection_risk |-> IF flags.infection THEN 70 ELSE 18,
         severity_score |-> score,
         narrative |-> build_narrative(r, flags, score),
         diet_tips |-> lifestyle_suggestions(flags)]

(***************************************************************************)
(* src/src/chatbot.py                                                      *)
(***************************************************************************)
Digits == <<"0","1","2","3","4","5","6","7","8","9">>
IsDigit(c) == \E i \in DOMAIN Digits : Digits[i] = c
DigitVal(c) == (CHOOSE i \in DOMAIN Digits : Digits[i] = c) - 1

RECURSIVE DigitsVal(_)
DigitsVal(s) == IF s = <<>> THEN 0 ELSE 10 * DigitsVal(SubSeq(s, 1, Len(s) - 1)) + DigitVal(s[Len(s)])

\* The place of the first "." of s, or Len(s) + 1
DotAt(s) == IF \E i \in DOMAIN s : s[i] = "." THEN CHOOSE i \in DOMAIN s : s[i] = "." /\ \A j \in 1..(i - 1) : s[j] # "." ELSE Len(s) + 1

\* A numeral digits[.digits]: what the report patterns capture and the plain
\* decimal form float() accepts
IsDecimal(s) ==
    /\ DotAt(s) > 1
    /\ \A i \in DOMAIN s : i # DotAt(s) => IsDigit(s[i])

\* float(s) of a numeral, to two decimals
DecimalVal(s) ==
    LET whole == SubSeq(s, 1, DotAt(s) - 1)
        frac == SubSeq(s, DotAt(s) + 1, Len(s))
        f2 == SubSeq(frac \o <<"0","0">>, 1, 2)
    IN  DigitsVal(whole) * Den + DigitsVal(f2)

NoFloat == [k |-> "nofloat", n |-> 0, s |-> <<>>]

\* _safe_float: float(value), None on TypeError (None) and ValueError (text
\* that is no number).  float() of NaN is NaN.
safe_float(v) ==
    IF v.k = "num" \/ v.k = "nan" THEN v
    ELSE IF v.k = "str" /\ IsDecimal(v.s) THEN Num(DecimalVal(v.s))
    ELSE IF v.k = "str" /\ Lower(v.s) = <<"n","a","n">> THEN NaN
    ELSE NoFloat

\* latest_row.get(field): None when the row has no such field
GetOrNone(r, f) == Get(r, f, NoneV)

\* needle in haystack
Contains(hay, needle) ==
    \E i \in 1..(Len(hay) - Len(needle) + 1) : SubSeq(hay, i, i + Len(needle) - 1) = needle

\* round(n / unit) to the nearest whole, ties to even
RoundHalfEven(n, unit) ==
    LET q == n \div unit
        r == n % unit
    IN  IF 2 * r > unit \/ (2 * r = unit /\ q % 2 = 1) THEN q + 1 ELSE q

\* f"{x:.1f}" and f"{x:.0f}": the number of tenths, of units; "nan" for NaN
Fmt1(x) == IF x.k = "nan" THEN "nan" ELSE ToString(RoundHalfEven(x.n, Den \div 10))
Fmt0(x) == IF x.k = "nan" THEN "nan" ELSE ToString(RoundHalfEven(x.n, Den))

KwWbc == <<"w","b","c">>
KwHemoglobin == <<"h","e","m","o","g","l","o","b","i","n">>
KwAnemia == <<"a","n","e","m","i","a">>
KwCholesterol == <<"c","h","o","l","e","s","t","e","r","o","l">>
KwLdl == <<"l","d","l">>

ReplyNoWbc == "I couldn't read your WBC value from the latest report."
ReplyWbcHigh == "Your WBC is {wbc:.1f}, which is higher than typical range and can indicate infection/inflammation."
ReplyWbcFine == "Your WBC is {wbc:.1f}, which is generally in expected range."
ReplyNoHb == "I couldn't read your hemoglobin value from the latest report."
ReplyHb == "Your hemoglobin is {h:.1f}. Low values may relate to anemia, especially with fatigue symptoms."
ReplyNoLipid == "I couldn't read LDL/cholesterol from the latest report."
ReplyLipid == "Your LDL is {l:.0f} and total cholesterol is {c:.0f}; improving diet and exercise can lower risk."
ReplyFallback == "I can explain WBC, hemoglobin/anemia, and cholesterol/LDL questions based on your report."

\* A reply is its sentence and the numbers formatted into it.
Say(text, a, b) == [text |-> text, a |-> a, b |-> b]
NoReply == Say("", "", "")

\* Mutant: the question is not lower-cased before matching.
answer_question_case(q, r) ==
    LET wbc == safe_float(GetOrNone(r, "WBC"))
        h == safe_float(GetOrNone(r, "Hemoglobin"))
        l == safe_float(GetOrNone(r, "LDL"))
        c == safe_float(GetOrNone(r, "Cholesterol"))
    IN  IF Contains(q, KwWbc)
        THEN IF wbc = NoFloat THEN Say(ReplyNoWbc, "", "")
             ELSE IF Gt(wbc, Num(11 * Den)) THEN Say(ReplyWbcHigh, Fmt1(wbc), "")
             ELSE Say(ReplyWbcFine, Fmt1(wbc), "")
        ELSE IF Contains(q, KwHemoglobin) \/ Contains(q, KwAnemia)
        THEN IF h = NoFloat THEN Say(ReplyNoHb, "", "") ELSE Say(ReplyHb, Fmt1(h), "")
        ELSE IF Contains(q, KwCholesterol) \/ Contains(q, KwLdl)
        THEN IF l = NoFloat \/ c = NoFloat THEN Say(ReplyNoLipid, "", "")
             ELSE Say(ReplyLipid, Fmt0(l), Fmt0(c))
        ELSE Say(ReplyFallback, "", "")

answer_question(qu, r) ==
    LET q == Lower(qu)
        wbc == safe_float(GetOrNone(r, "WBC"))
        h == safe_float(GetOrNone(r, "Hemoglobin"))
        l == safe_float(GetOrNone(r, "LDL"))
        c == safe_float(GetOrNone(r, "Cholesterol"))
    IN  IF Contains(q, KwWbc)
        THEN IF wbc = NoFloat THEN Say(ReplyNoWbc, "", "")
             ELSE IF Gt(wbc, Num(11 * Den)) THEN Say(ReplyWbcHigh, Fmt1(wbc), "")
             ELSE Say(ReplyWbcFine, Fmt1(wbc), "")
        ELSE IF Contains(q, KwHemoglobin) \/ Contains(q, KwAnemia)
        THEN IF h = NoFloat THEN Say(ReplyNoHb, "", "") ELSE Say(ReplyHb, Fmt1(h), "")
        ELSE IF Contains(q, KwCholesterol) \/ Contains(q, KwLdl)
        THEN IF l = NoFloat \/ c = NoFloat THEN Say(ReplyNoLipid, "", "")
             ELSE Say(ReplyLipid, Fmt0(l), Fmt0(c))
        ELSE Say(ReplyFallback, "", "")

(***************************************************************************)
(* src/src/data_pipeline.py: parse_report_text                             *)
(***************************************************************************)
\* The characters [0-9] matches
DigitChars == {Digits[i] : i \in DOMAIN Digits}
\* The characters \s matches
WsChars == {" ", "\n", "\t"}
IsWs(c) == c \in WsChars
\* The characters [a-z0-9\-_] matches
IdChars ==
    {Digits[i] : i \in DOMAIN Digits} \cup {"-", "_"} \cup {LowerChars[i] : i \in DOMAIN LowerChars}

\* literal at place i of t
StartsWith(t, i, lit) == i + Len(lit) - 1 <= Len(t) /\ SubSeq(t, i, i + Len(lit) - 1) = lit

\* The end of the longest run of characters of the class from place i on:
\* the first place not in the run (a greedy class*)
SkipWhile(t, i, class) ==
    CHOOSE j \in i..(Len(t) + 1) :
        /\ \A k \in i..(j - 1) : t[k] \in class
        /\ (j = Len(t) + 1 \/ t[j] \notin class)

ReportFields ==
    <<"Patient_ID", "Hemoglobin", "WBC", "RBC", "Platelets", "Cholesterol", "HDL", "LDL",
      "Triglycerides", "Age", "Gender">>

\* The literal a pattern of REPORT_PATTERN begins with
LabelText(field) ==
    CASE field = "Patient_ID" -> <<"p","a","t","i","e","n","t">>
      [] field = "Hemoglobin" -> <<"h","e","m","o","g","l","o","b","i","n">>
      [] field = "WBC" -> <<"w","b","c">>
      [] field = "RBC" -> <<"r","b","c">>
      [] field = "Platelets" -> <<"p","l","a","t","e","l","e","t">>
      [] field = "Cholesterol" -> <<"c","h","o","l","e","s","t","e","r","o","l">>
      [] field = "HDL" -> <<"h","d","l">>
      [] field = "LDL" -> <<"l","d","l">>
      [] field = "Triglycerides" -> <<"t","r","i","g","l","y","c","e","r","i","d","e">>
      [] field = "Age" -> <<"a","g","e">>
      [] field = "Gender" -> <<"g","e","n","d","e","r">>

\* The place after the pattern's label matched at place i, 0 when it does not
\* match there: patient[_\s-]?id, platelets?, triglycerides?, or the literal
LabelEnd(field, t, i) ==
    LET j == i + Len(LabelText(field))
    IN  IF ~StartsWith(t, i, LabelText(field)) THEN 0
        ELSE IF field = "Patient_ID"
        THEN IF j <= Len(t) /\ (t[j] \in {"_", "-"} \/ IsWs(t[j])) /\ StartsWith(t, j + 1, <<"i","d">>)
             THEN j + 3
             ELSE IF StartsWith(t, j, <<"i","d">>) THEN j + 2 ELSE 0
        ELSE IF field \in {"Platelets", "Triglycerides"}
        THEN IF j <= Len(t) /\ t[j] = "s" THEN j + 1 ELSE j
        ELSE j

\* The place after the pattern's group matched at place k (k itself when the
\* group does not match there): [a-z0-9\-_]+, [0-9]+, (male|female|other),
\* or [0-9]+\.?[0-9]*
CaptureEnd(field, t, k) ==
    IF field = "Patient_ID" THEN SkipWhile(t, k, IdChars)
    ELSE IF field = "Age" THEN SkipWhile(t, k, DigitChars)
    ELSE IF field = "Gender"
    THEN IF StartsWith(t, k, <<"m","a","l","e">>) THEN k + 4
         ELSE IF StartsWith(t, k, <<"f","e","m","a","l","e">>) THEN k + 6
         ELSE IF StartsWith(t, k, <<"o","t","h","e","r">>) THEN k + 5
         ELSE k
    ELSE LET d == SkipWhile(t, k, DigitChars)
         IN  IF d = k THEN k
             ELSE IF d <= Len(t) /\ t[d] = "." THEN SkipWhile(t, d + 1, DigitChars) ELSE d

\* Mutant: the separator [:\-] is required, not optional.
MatchAtSepRequired(field, t, i) ==
    LET j == LabelEnd(field, t, i)
        k == SkipWhile(t, j, WsChars)
        k3 == SkipWhile(t, k + 1, WsChars)
        e == CaptureEnd(field, t, k3)
    IN  IF j = 0 \/ ~(k <= Len(t) /\ t[k] \in {":", "-"}) THEN <<>>
        ELSE IF e > k3 THEN SubSeq(t, k3, e - 1) ELSE <<>>

\* group(1) of the pattern matched at place i, <<>> when it does not match
\* there: label, \s*, [:\-]?, \s*, group.  The separator is taken when it is
\* there and given back when the group cannot follow it.
MatchAt(field, t, i) ==
    LET j == LabelEnd(field, t, i)
        k == SkipWhile(t, j, WsChars)
        sep == k <= Len(t) /\ t[k] \in {":", "-"}
        k3 == IF sep THEN SkipWhile(t, k + 1, WsChars) ELSE k
        e == CaptureEnd(field, t, k3)
        e0 == CaptureEnd(field, t, k)
    IN  IF j = 0 THEN <<>>
        ELSE IF e > k3 THEN SubSeq(t, k3, e - 1)
        ELSE IF e0 > k THEN SubSeq(t, k, e0 - 1)
        ELSE <<>>

\* re.search(pattern, t).group(1): the leftmost match; <<>> for no match
Search(field, t) ==
    IF \E i \in 1..Len(t) : MatchAt(field, t, i) # <<>>
    THEN MatchAt(field, t, CHOOSE i \in 1..Len(t) :
                              /\ MatchAt(field, t, i) # <<>>
                              /\ \A h \in 1..(i - 1) : MatchAt(field, t, h) = <<>>)
    ELSE <<>>

\* datetime.now().date().isoformat()
TodayIso == <<"2","0","2","6","-","0","1","-","1","5">>

\* The value stored for a match
Extracted(field, value) ==
    IF field = "Gender" THEN Str(Capitalize(value))
    ELSE IF field = "Age" THEN Num(DigitsVal(value) * Den)
    ELSE IF field = "Patient_ID" THEN Str(Upper(value))
    ELSE Num(DecimalVal(value))

ParseDefault(field) ==
    CASE field = "Test_Date" -> Str(TodayIso)
      [] field = "Symptoms" -> Str(<<>>)
      [] field = "Gender" -> Str(<<"F","e","m","a","l","e">>)
      [] field = "Age" -> Num(30 * Den)
      [] field = "Patient_ID" -> Str(<<"P","-","U","N","K","N","O","W","N">>)

\* pd.DataFrame([extracted]): a frame of one row
parse_report_text(text) ==
    LET normalized == Lower(text)
        found == {ReportFields[i] : i \in {h \in DOMAIN ReportFields :
                                             Search(ReportFields[h], normalized) # <<>>}}
    IN  <<[f \in found \cup {"Test_Date", "Symptoms", "Gender", "Age", "Patient_ID"} |->
            IF f \in found THEN Extracted(f, Search(f, normalized)) ELSE ParseDefault(f)]>>

(***************************************************************************)
(* Ordering of strings and dates, and the stable sorts of pandas.          *)
(***************************************************************************)
\* The characters in code-point order
CodePoints ==
    <<"-">> \o Digits \o UpperChars \o <<"_">> \o LowerChars

CharOrd(c) == CHOOSE i \in DOMAIN CodePoints : CodePoints[i] = c

\* a < b on strings: the first differing character decides, a prefix is less
RECURSIVE StrLess(_, _)
StrLess(a, b) ==
    IF b = <<>> THEN FALSE
    ELSE IF a = <<>> THEN TRUE
    ELSE IF a[1] # b[1] THEN CharOrd(a[1]) < CharOrd(b[1])
    ELSE StrLess(Tail(a), Tail(b))

\* A date: a Timestamp or an ISO date text, ordered as the days are
Date(d) == [k |-> "date", n |-> d, s |-> <<>>]

\* Mutant: only the patient decides the order.
PatientOnlyLess(a, b) == StrLess(a["Patient_ID"].s, b["Patient_ID"].s)

\* row a sorts before row b under ["Patient_ID", "Test_Date"]
PatientDateLess(a, b) ==
    \/ StrLess(a["Patient_ID"].s, b["Patient_ID"].s)
    \/ (a["Patient_ID"].s = b["Patient_ID"].s /\ a["Test_Date"].n < b["Test_Date"].n)

\* x put into the sorted rows s behind every row that does not sort after it
InsertByPatientDate(s, x) ==
    LET at == IF \E i \in DOMAIN s : PatientDateLess(x, s[i])
              THEN CHOOSE i \in DOMAIN s :
                       PatientDateLess(x, s[i]) /\ \A h \in 1..(i - 1) : ~PatientDateLess(x, s[h])
              ELSE Len(s) + 1
    IN  SubSeq(s, 1, at - 1) \o <<x>> \o SubSeq(s, at, Len(s))

\* sort_values(["Patient_ID", "Test_Date"], ignore_index=True): a stable sort
RECURSIVE SortByPatientDate(_)
SortByPatientDate(rows) ==
    IF rows = <<>> THEN <<>>
    ELSE InsertByPatientDate(SortByPatientDate(SubSeq(rows, 1, Len(rows) - 1)), rows[Len(rows)])

(***************************************************************************)
(* src/src/synthetic_data.py                                               *)
(***************************************************************************)
\* The least size of the patient pool: 25 in the code, scaled down here
PoolFloor == 2

RECURSIVE DigitsOf(_)
DigitsOf(n) == IF n < 10 THEN <<Digits[n + 1]>> ELSE DigitsOf(n \div 10) \o <<Digits[(n % 10) + 1]>>

patient_pool(n) == IF n \div 5 > PoolFloor THEN n \div 5 ELSE PoolFloor

\* f"P-{1000 + i}"
PatientId(i) == <<"P", "-">> \o DigitsOf(1000 + i)

\* What the generator draws from rng for n rows: a patient for each row, an
\* age and a gender for each patient of the pool, days_ago and the
\* hemoglobin for each row.
SynthAges == {30, 62}
SynthGenders == {<<"M","a","l","e">>, <<"F","e","m","a","l","e">>}
SynthDays == {0, 1}
SynthHb == {Num(1320)}

Draws(n) ==
    [assigned : [1..n -> 0..(patient_pool(n) - 1)],
     age : [0..(patient_pool(n) - 1) -> SynthAges],
     gender : [0..(patient_pool(n) - 1) -> SynthGenders],
     days_ago : [1..n -> SynthDays],
     hb : [1..n -> SynthHb]]

\* Row i before sorting.  Of the measurement columns only Hemoglobin is kept.
SynthRow(d, i) ==
    [Patient_ID |-> Str(PatientId(d.assigned[i])),
     Test_Date |-> Date(0 - d.days_ago[i]),
     Hemoglobin |-> d.hb[i],
     Age |-> Num(d.age[d.assigned[i]] * Den),
     Gender |-> Str(d.gender[d.assigned[i]])]

generate_synthetic_dataset(n, d) == SortByPatientDate([i \in 1..n |-> SynthRow(d, i)])

(***************************************************************************)
(* src/src/data_pipeline.py: the encrypted store.                          *)
(* A data frame is the sequence of its rows, each a function from the      *)
(* frame's columns to cells.  The key file holds NoKey (no file) or a key; *)
(* the database file holds the rows of table reports.                      *)
(***************************************************************************)
NoKey == 0
NumKeys == 2
FernetKeys == 1..NumKeys

\* bytes that anyone can read, and a Fernet token only its key opens
Bytes(content) == [alg |-> "plain", key |-> NoKey, payload |-> content]
Token(k, content) == [alg |-> "fernet", key |-> k, payload |-> content]
InvalidToken == [alg |-> "invalid", key |-> NoKey, payload |-> <<>>]

\* Fernet(key).encrypt(payload) and Fernet(key).decrypt(token)
FernetEncrypt(k, blob) == Token(k, blob.payload)
FernetDecrypt(k, blob) ==
    IF blob.alg = "fernet" /\ blob.key = k THEN Bytes(blob.payload) ELSE InvalidToken

\* The text to_csv writes for a cell: a number in decimal, text as it is,
\* nothing for None and NaN.  A whole number is written without a fraction.
FormatDecimal(n) ==
    LET whole == DigitsOf(n \div Den)
        frac == n % Den
    IN  IF frac = 0 THEN whole
        ELSE IF frac % 10 = 0 THEN whole \o <<".">> \o DigitsOf(frac \div 10)
        ELSE IF frac < 10 THEN whole \o <<".", "0">> \o DigitsOf(frac)
        ELSE whole \o <<".">> \o DigitsOf(frac)

CellText(v) ==
    IF v.k = "num" THEN (IF v.n < 0 THEN <<"-">> \o FormatDecimal(0 - v.n) ELSE FormatDecimal(v.n))
    ELSE IF v.k = "str" THEN v.s
    ELSE IF v.k = "date" THEN <<"d">> \o DigitsOf(v.n)
    ELSE <<>>

Columns(frame) == IF frame = <<>> THEN {} ELSE DOMAIN frame[1]

\* df.to_csv(index=False): the header and one line of cell texts for each row
to_csv(frame) ==
    [header |-> Columns(frame),
     lines |-> [i \in DOMAIN frame |-> [c \in Columns(frame) |-> CellText(frame[i][c])]]]

IsNumeral(t) ==
    \/ IsDecimal(t)
    \/ (Len(t) > 1 /\ t[1] = "-" /\ IsDecimal(Tail(t)))

NumeralVal(t) == IF t[1] = "-" THEN 0 - DecimalVal(Tail(t)) ELSE DecimalVal(t)

\* pd.read_csv: a column whose filled cells are all numerals is numeric, any
\* other column is text; an empty cell is NaN.
read_csv(csv) ==
    LET numeric(c) == \A i \in DOMAIN csv.lines : csv.lines[i][c] = <<>> \/ IsNumeral(csv.lines[i][c])
        cell(i, c) ==
            IF csv.lines[i][c] = <<>> THEN NaN
            ELSE IF numeric(c) THEN Num(NumeralVal(csv.lines[i][c]))
            ELSE Str(csv.lines[i][c])
    IN  [i \in DOMAIN csv.lines |-> [c \in csv.header |-> cell(i, c)]]

\* pd.concat(frames, ignore_index=True): the rows in order, over the union of
\* the columns, NaN where a frame lacks a column
RECURSIVE Flatten(_)
Flatten(frames) == IF frames = <<>> THEN <<>> ELSE frames[1] \o Flatten(Tail(frames))

Concat(frames) ==
    LET rows == Flatten(frames)
        cols == UNION {DOMAIN rows[i] : i \in DOMAIN rows}
    IN  [i \in DOMAIN rows |-> [c \in cols |-> IF c \in DOMAIN rows[i] THEN rows[i][c] ELSE NaN]]

\* frame[column] = value
SetColumn(frame, column, value) ==
    [i \in DOMAIN frame |->
        [c \in DOMAIN frame[i] \cup {column} |-> IF c = column THEN value ELSE frame[i][c]]]

\* _load_or_create_key, run as one step: the key read from the file, or the
\* newly generated key fresh written to it
KeyAfter(keyFile, fresh) == IF keyFile # NoKey THEN keyFile ELSE fresh

\* The keys Fernet.generate_key can give where it is called: it is called
\* only when there is no key file
GeneratedKeys(keyFile) == IF keyFile # NoKey THEN {keyFile} ELSE FernetKeys

encrypt_payload(payload, k) == FernetEncrypt(k, payload)
decrypt_payload(payload, k) == FernetDecrypt(k, payload)

\* The row save_report inserts
ReportRow(id, patient_id, test_date, frame, k) ==
    [id |-> id, patient_id |-> patient_id, test_date |-> test_date,
     encrypted_csv |-> encrypt_payload(Bytes(to_csv(frame)), k)]

\* `if patient_id:` of load_reports: None and "" are false
Truthy(p) == p.k = "str" /\ p.s # <<>>

\* SELECT patient_id, test_date, encrypted_csv FROM reports [WHERE patient_id = ?]
SelectReports(table, p) ==
    LET keep(i) == ~Truthy(p) \/ table[i].patient_id = p.s
        pick[i \in 0..Len(table)] ==
            IF i = 0 THEN <<>>
            ELSE IF keep(i) THEN pick[i - 1] \o <<table[i]>> ELSE pick[i - 1]
    IN  pick[Len(table)]

LoadFailed == <<[error |-> Str(<<"I","n","v","a","l","i","d","T","o","k","e","n">>)]>>

\* Mutant: the Patient_ID of the stored CSV is kept.
LoadedFrameKeepId(rec, k) ==
    SetColumn(read_csv(decrypt_payload(rec.encrypted_csv, k).payload), "Test_Date", Date(rec.test_date))

\* One stored row decrypted and read back, with the row's patient and date
LoadedFrame(rec, k) ==
    SetColumn(SetColumn(read_csv(decrypt_payload(rec.encrypted_csv, k).payload),
                        "Patient_ID", Str(rec.patient_id)),
              "Test_Date", Date(rec.test_date))

\* load_reports(patient_id, config) with key k read from the key file
load_reports(p, exists, table, k) ==
    LET rows == SelectReports(table, p)
    IN  IF ~exists THEN <<>>
        ELSE IF \E i \in DOMAIN rows : decrypt_payload(rows[i].encrypted_csv, k) = InvalidToken
        THEN LoadFailed
        ELSE Concat([i \in DOMAIN rows |-> LoadedFrame(rows[i], k)])

(***************************************************************************)
(* src/app.py: one run of the dashboard script.                            *)
(***************************************************************************)
\* df[df["Patient_ID"] == selected]
RowsOfPatient(frame, selected) ==
    LET pick[i \in 0..Len(frame)] ==
            IF i = 0 THEN <<>>
            ELSE IF frame[i]["Patient_ID"] = Str(selected) THEN pick[i - 1] \o <<frame[i]>>
            ELSE pick[i - 1]
    IN  pick[Len(frame)]

\* synthetic_all["Patient_ID"].unique()
PatientsOf(frame) == {frame[i]["Patient_ID"].s : i \in DOMAIN frame}

\* `patient_filter or None`
FilterOrNone(f) == IF f = <<>> THEN NoneV ELSE Str(f)

\* The orders df.sort_values("Test_Date") can give: by date, rows of one date
\* in any order (the sort is not a stable one)
DateOrders(frame) ==
    {perm \in Permutations(DOMAIN frame) :
        \A i, j \in DOMAIN frame :
            i < j => frame[perm[i]]["Test_Date"].n <= frame[perm[j]]["Test_Date"].n}

\* Mutant: the first row of the sorted frame is taken as the latest.
LatestOfFirst(sorted) == sorted[1]

\* df.sort_values("Test_Date").iloc[-1]
LatestOf(sorted) == sorted[Len(sorted)]

\* Mutant: a step that stays level counts as a decline.
hemoglobin_warning_ge(sorted) ==
    LET n == Len(sorted)
        ge(a, b) == Gt(a, b) \/ (a.k = "num" /\ a = b)
    IN  IF n < 3 THEN "none"
        ELSE IF "Hemoglobin" \notin Columns(sorted) THEN "KeyError"
        ELSE IF /\ ge(sorted[n - 2]["Hemoglobin"], sorted[n - 1]["Hemoglobin"])
                /\ ge(sorted[n - 1]["Hemoglobin"], sorted[n]["Hemoglobin"])
        THEN "warning" ELSE "none"

\* The early warning of app.py lines 106-109 on the sorted frame: "warning",
\* "none", or "KeyError" when the frame has no Hemoglobin column
hemoglobin_warning(sorted) ==
    LET n == Len(sorted)
    IN  IF n < 3 THEN "none"
        ELSE IF "Hemoglobin" \notin Columns(sorted) THEN "KeyError"
        ELSE IF /\ Gt(sorted[n - 2]["Hemoglobin"], sorted[n - 1]["Hemoglobin"])
                /\ Gt(sorted[n - 1]["Hemoglobin"], sorted[n]["Hemoglobin"])
        THEN "warning" ELSE "none"

NoRow == [none |-> NaN]
NoShown == [insight |-> NoInsight, warning |-> "none", answer |-> NoReply]

\* What the run shows for a frame that is not empty, sorted by date: the
\* insight on the latest row, the early warning, the chatbot's answer when a
\* question was typed (the script stops at a KeyError)
Shown(sorted, q) ==
    [insight |-> interpret_row(LatestOf(sorted)),
     warning |-> hemoglobin_warning(sorted),
     answer |-> IF q = <<>> \/ hemoglobin_warning(sorted) = "KeyError" THEN NoReply
                ELSE answer_question(q, LatestOf(sorted))]

(***************************************************************************)
(* Report texts.  A text is made of lines; with each line goes what it     *)
(* says: the field it names and the value written after the label ("" for *)
(* a line that gives no value).                                            *)
(***************************************************************************)
Line(chars, field, value) == [chars |-> chars, field |-> field, value |-> value]

ReportLines ==
    <<Line(<<"P","a","t","i","e","n","t"," ","I","D",":"," ","p","-","9","0","9","\n">>,
           "Patient_ID", Str(<<"P","-","9","0","9">>)),
      Line(<<"p","a","t","i","e","n","t","_","i","d","-","a","b","_","1","\n">>,
           "Patient_ID", Str(<<"A","B","_","1">>)),
      Line(<<"G","e","n","d","e","r",":"," ","f","e","m","a","l","e","\n">>,
           "Gender", Str(<<"F","e","m","a","l","e">>)),
      Line(<<"G","E","N","D","E","R"," ","m","a","l","e","\n">>,
           "Gender", Str(<<"M","a","l","e">>)),
      Line(<<"A","g","e",":"," ","3","1","\n">>,
           "Age", Num(31 * Den)),
      Line(<<"H","e","m","o","g","l","o","b","i","n",":"," ","1","1",".","2","\n">>,
           "Hemoglobin", Num(1120)),
      Line(<<"h","e","m","o","g","l","o","b","i","n"," ","l","o","w","\n">>,
           "", NaN),
      Line(<<"H","E","M","O","G","L","O","B","I","N","-","1","3","\n">>,
           "Hemoglobin", Num(13 * Den)),
      Line(<<"W","B","C"," ","-"," ","1","2",".","1","\n">>,
           "WBC", Num(1210)),
      Line(<<"L","D","L",":"," ","1","4","1","\n">>,
           "LDL", Num(141 * Den)),
      Line(<<"V","L","D","L",":"," ","3","0","\n">>,
           "LDL", Num(30 * Den)),
      Line(<<"H","D","L"," ","C","h","o","l","e","s","t","e","r","o","l",":"," ","5","0","\n">>,
           "Cholesterol", Num(50 * Den)),
      Line(<<"P","l","a","t","e","l","e","t","s"," ","2","5","0",".","\n">>,
           "Platelets", Num(250 * Den))>>


RECURSIVE TextOf(_)
TextOf(ls) == IF ls = <<>> THEN <<>> ELSE ReportLines[ls[1]].chars \o TextOf(Tail(ls))

\* The reports uploaded to the dashboard
UploadA ==
    <<"P","a","t","i","e","n","t"," ","I","D",":"," ","p","-","1","\n","H","e","m","o","g","l",
      "o","b","i","n",":"," ","1","1",".","2","\n","W","B","C",":"," ","1","2",".","1","\n">>
UploadB ==
    <<"P","a","t","i","e","n","t"," ","I","D",":"," ","p","-","2","\n","H","e","m","o","g","l",
      "o","b","i","n",":"," ","1","4","\n">>
UploadC ==
    <<"W","B","C",":"," ","8","\n">>
UploadD ==
    <<"P","a","t","i","e","n","t"," ","I","D",":"," ","p","-","1","\n","H","e","m","o","g","l",
      "o","b","i","n",":"," ","1","0",".","5","\n">>
Uploads == {UploadA, UploadB, UploadC}
PatientOne == <<"P","-","1">>
PatientTwo == <<"P","-","2">>
PatientNine == <<"P","-","9">>

(***************************************************************************)
(* Inputs.                                                                 *)
(***************************************************************************)
Absent == [k |-> "absent", n |-> 0, s |-> <<>>]

\* pd.Series(dict): the fields chosen Absent are not in the row
MkRow(c) == [f \in {g \in DOMAIN c : c[g] # Absent} |-> c[f]]

\* Rows for the interpreter.  A measurement is absent (the column does not
\* exist), NaN (the column exists and the cell is empty, as load_reports'
\* concat leaves it) or a number.  Age is absent or a whole number:
\* parse_report_text and the generator always set an integer Age.
HbInputs == {Absent, NaN, Num(-5000), Num(1080), Num(1199), Num(1200), Num(1299), Num(1300)}
LdlInputs == {Absent, NaN, Num(13000), Num(13100), Num(99900)}
TgInputs == {Absent, NaN, Num(15000), Num(15100), Num(200000)}
WbcInputs == {Absent, NaN, Num(1100), Num(1110), Num(5000)}
CholInputs == {Absent, NaN, Num(20000), Num(20100)}
AgeInputs == {Absent, Num(2800), Num(5000), Num(5100)}
GenderInputs == {Absent, Str(<<"F","e","m","a","l","e">>), Str(<<"f","e","m","a","l","e">>),
                 Str(<<"F","E","M","A","L","E">>), Str(<<"M","a","l","e">>)}

InterpRows ==
    {MkRow(c) : c \in [Hemoglobin : HbInputs, LDL : LdlInputs, Triglycerides : TgInputs,
                       WBC : WbcInputs, Cholesterol : CholInputs, Age : AgeInputs,
                       Gender : GenderInputs]}

\* Questions of up to MaxWords words, and latest rows whose cells are absent,
\* None, NaN, text or numbers, for the chatbot
MaxWords == 2

Words ==
    {<<"W","B","C">>, <<"H","e","m","o","g","l","o","b","i","n">>, <<"a","n","e","m","i","a">>,
     <<"L","D","L">>, <<"C","h","o","l","e","s","t","e","r","o","l">>, <<"m","y">>, <<"w","h","y">>}

RECURSIVE Phrases(_)
Phrases(n) ==
    IF n = 1 THEN Words
    ELSE Phrases(n - 1) \cup {p \o <<" ">> \o w : p \in Phrases(n - 1), w \in Words}

Unknown == Str(<<"u","n","k","n","o","w","n">>)
NotAvailable == Str(<<"n","/","a">>)

ChatRows ==
    {MkRow(c) : c \in [WBC : {Absent, NoneV, NaN, Unknown, Str(<<"1","2",".","5">>), Num(800)},
                       Hemoglobin : {Absent, NoneV, NaN, Num(1080)},
                       LDL : {Absent, NotAvailable, NaN, Num(14100)},
                       Cholesterol : {Absent, NotAvailable, Num(21050)}]}

\* Report texts of up to MaxLines lines for the parser
MaxLines == 2

RECURSIVE LineLists(_)
LineLists(n) ==
    IF n = 0 THEN {<<>>}
    ELSE LineLists(n - 1) \cup {Append(ls, i) : ls \in LineLists(n - 1), i \in DOMAIN ReportLines}

\* Up to MaxSynthRows rows for the generator
MaxSynthRows == 3

\* Up to MaxReports saved reports; the frames, patients and dates saved
MaxReports == 2

\* parse_report_text of each upload
ParsedUpload == [t \in Uploads \cup {UploadD} |-> parse_report_text(t)]

\* A frame of two rows: the first upload and a second reading of it
TwoRows ==
    SetColumn(ParsedUpload[UploadA], "Hemoglobin", Num(1120))
    \o SetColumn(ParsedUpload[UploadA], "Hemoglobin", Num(1050))

UploadFrames == {ParsedUpload[t] : t \in Uploads}
StoreFrames == UploadFrames \cup {TwoRows}
SavePatients == {PatientOne, PatientTwo}
SaveDates == {1, 2}
LoadArgs == {NoneV, Str(<<>>), Str(PatientOne), Str(PatientTwo), Str(PatientNine)}

\* The dashboard's synthetic data set: AppRows rows (600 in the code) from
\* a draw of the generator whose dates rise or fall with the row; the
\* hemoglobin of the first patient falls with every row, that of the second
\* with every third row
AppRows == 6

AppDraws ==
    {[assigned |-> [i \in 1..AppRows |-> i % 2],
      age |-> [p \in 0..(patient_pool(AppRows) - 1) |-> IF p = 0 THEN 30 ELSE 62],
      gender |-> [p \in 0..(patient_pool(AppRows) - 1) |->
                     IF p = 0 THEN <<"F","e","m","a","l","e">> ELSE <<"M","a","l","e">>],
      days_ago |-> [i \in 1..AppRows |-> IF up THEN i ELSE AppRows - i],
      hb |-> [i \in 1..AppRows |-> Num(1400 - 50 * (IF i % 2 = 0 THEN i ELSE i \div 3))]] :
        up \in BOOLEAN}

\* Up to MaxUploads reports uploaded and saved through the dashboard, each
\* with the patient and the test date entered for it
MaxUploads == 3

AppSaves ==
    {[upload |-> UploadB, patient_id |-> PatientTwo, test_date |-> 1],
     [upload |-> UploadA, patient_id |-> PatientOne, test_date |-> 2],
     [upload |-> UploadD, patient_id |-> PatientOne, test_date |-> 3],
     [upload |-> UploadC, patient_id |-> PatientOne, test_date |-> 3]}

AppQuestions == {<<>>, <<"W","B","C">>}

(***************************************************************************)
(* States in which a part of the program has not run.                      *)
(***************************************************************************)
NoFlags == [anemia |-> FALSE, infection |-> FALSE, cardio |-> FALSE, none |-> TRUE]
NotParsed == <<>>
NotGenerated == <<[none |-> NaN]>>
NotLoaded == <<[none |-> NaN]>>

\* Dashboard sessions that share one StorageConfig
NumSessions == 2
Sessions == 1..NumSessions

\* The key file between open(key_path, "wb") and the write reaching it
EmptyKey == 0 - 1

SessionIdle == [pc |-> "idle", op |-> "none", key |-> NoKey, arg |-> 0, result |-> "none"]
SessIdle == sessions = [s \in Sessions |-> SessionIdle]

InterpIdle == row = <<>> /\ row_flags = NoFlags /\ insight = NoInsight
ChatIdle == question = <<>> /\ latest_row = <<>> /\ reply = NoReply
ParseIdle == report_lines = <<>> /\ report_text = <<>> /\ parsed = NotParsed
SynthIdle == synth_n = 0 /\ dataset = NotGenerated
StoreEmpty == key_file = NoKey /\ db_exists = FALSE /\ reports = <<>> /\ saved = <<>>
LoadIdle == load_arg = NoneV /\ loaded = NotLoaded
AppIdle ==
    /\ synthetic_all = <<>> /\ mode = "none" /\ patient_filter = <<>>
    /\ df = <<>> /\ latest = NoRow /\ shown = NoShown

(***************************************************************************)
(* The interpreter on its own: any report row, then interpret_row.         *)
(***************************************************************************)
InitInterp ==
    /\ row \in InterpRows
    /\ row_flags = NoFlags
    /\ insight = NoInsight
    /\ ChatIdle /\ ParseIdle /\ SynthIdle /\ StoreEmpty /\ LoadIdle /\ AppIdle /\ SessIdle

Interpret ==
    /\ insight = NoInsight
    /\ row_flags' = rule_based_flags(row)
    /\ insight' = interpret_row(row)
    /\ UNCHANGED <<sessVars, row, chatVars, parseVars, synthVars, storeVars, loadVars, appVars>>

NextInterp == Interpret

SpecInterp == InitInterp /\ [][NextInterp]_vars

(***************************************************************************)
(* The chatbot on its own: any question and latest row, then               *)
(* answer_question.                                                        *)
(***************************************************************************)
InitChat ==
    /\ question \in Phrases(MaxWords)
    /\ latest_row \in ChatRows
    /\ reply = NoReply
    /\ InterpIdle /\ ParseIdle /\ SynthIdle /\ StoreEmpty /\ LoadIdle /\ AppIdle /\ SessIdle

Ask ==
    /\ reply = NoReply
    /\ reply' = answer_question(question, latest_row)
    /\ UNCHANGED <<sessVars, question, latest_row, interpVars, parseVars, synthVars, storeVars,
                   loadVars, appVars>>

NextChat == Ask

SpecChat == InitChat /\ [][NextChat]_vars

(***************************************************************************)
(* The parser on its own: any report text, then parse_report_text.         *)
(***************************************************************************)
InitParse ==
    /\ report_lines \in LineLists(MaxLines)
    /\ report_text = TextOf(report_lines)
    /\ parsed = NotParsed
    /\ InterpIdle /\ ChatIdle /\ SynthIdle /\ StoreEmpty /\ LoadIdle /\ AppIdle /\ SessIdle

Parse ==
    /\ parsed = NotParsed
    /\ parsed' = parse_report_text(report_text)
    /\ UNCHANGED <<sessVars, report_lines, report_text, interpVars, chatVars, synthVars, storeVars,
                   loadVars, appVars>>

NextParse == Parse

SpecParse == InitParse /\ [][NextParse]_vars

(***************************************************************************)
(* The generator on its own: any n and any draws of the rng (the seed).    *)
(***************************************************************************)
InitSynth ==
    /\ synth_n \in 1..MaxSynthRows
    /\ dataset = NotGenerated
    /\ InterpIdle /\ ChatIdle /\ ParseIdle /\ StoreEmpty /\ LoadIdle /\ AppIdle /\ SessIdle

Generate ==
    /\ dataset = NotGenerated
    /\ \E d \in Draws(synth_n) : dataset' = generate_synthetic_dataset(synth_n, d)
    /\ UNCHANGED <<sessVars, synth_n, interpVars, chatVars, parseVars, storeVars, loadVars, appVars>>

NextSynth == Generate

SpecSynth == InitSynth /\ [][NextSynth]_vars

(***************************************************************************)
(* The store on its own: init_db, save_report and load_reports called in   *)
(* any order with one StorageConfig.  saved is the list of the calls of    *)
(* save_report so far; loaded is what the last call returned when it was   *)
(* load_reports.                                                           *)
(***************************************************************************)
InitStore ==
    /\ StoreEmpty /\ LoadIdle
    /\ InterpIdle /\ ChatIdle /\ ParseIdle /\ SynthIdle /\ AppIdle /\ SessIdle

\* init_db: the file and the table are created when they are not there
InitDb ==
    /\ ~db_exists
    /\ db_exists' = TRUE
    /\ loaded' = NotLoaded /\ load_arg' = NoneV
    /\ UNCHANGED <<sessVars, key_file, reports, saved, interpVars, chatVars, parseVars, synthVars, appVars>>

\* The store after save_report(frame, patient_id, test_date, config), fresh
\* being the key generate_key gives should the key file not exist
Saved(frame, patient_id, test_date, fresh) ==
    LET k == KeyAfter(key_file, fresh)
    IN  /\ db_exists' = TRUE
        /\ key_file' = k
        /\ reports' = Append(reports, ReportRow(Len(reports) + 1, patient_id, test_date, frame, k))
        /\ saved' = Append(saved, [frame |-> frame, patient_id |-> patient_id,
                                   test_date |-> test_date])

SaveReport ==
    /\ Len(reports) < MaxReports
    /\ \E frame \in StoreFrames, p \in SavePatients, d \in SaveDates, fresh \in GeneratedKeys(key_file) :
           Saved(frame, p, d, fresh)
    /\ loaded' = NotLoaded /\ load_arg' = NoneV
    /\ UNCHANGED <<sessVars, interpVars, chatVars, parseVars, synthVars, appVars>>

\* The key file after load_reports: decrypt_payload reads or creates the key
\* for each row selected
KeyAfterLoad(p, fresh) ==
    IF db_exists /\ SelectReports(reports, p) # <<>> THEN KeyAfter(key_file, fresh) ELSE key_file

LoadReports ==
    /\ \E p \in LoadArgs, fresh \in GeneratedKeys(key_file) :
           /\ load_arg' = p
           /\ key_file' = KeyAfterLoad(p, fresh)
           /\ loaded' = load_reports(p, db_exists, reports, KeyAfterLoad(p, fresh))
    /\ UNCHANGED <<sessVars, db_exists, reports, saved, interpVars, chatVars, parseVars, synthVars, appVars>>

NextStore == InitDb \/ SaveReport \/ LoadReports

SpecStore == InitStore /\ [][NextStore]_vars

(***************************************************************************)
(* The dashboard: each interaction runs the script of app.py from top to   *)
(* bottom, in synthetic mode or in upload mode.  The models of lines 52-57 *)
(* need ten reports and are left out.                                      *)
(***************************************************************************)
InitApp ==
    /\ StoreEmpty /\ LoadIdle
    /\ synthetic_all \in {generate_synthetic_dataset(AppRows, d) : d \in AppDraws}
    /\ mode = "none" /\ patient_filter = <<>>
    /\ df = <<>> /\ latest = NoRow /\ shown = NoShown
    /\ InterpIdle /\ ChatIdle /\ ParseIdle /\ SynthIdle /\ SessIdle

\* Lines 51-120 on the frame of this run: nothing for an empty frame, else the
\* latest row of the frame sorted by date and what is shown for it
Present(frame) ==
    /\ df' = frame
    /\ IF frame = <<>>
       THEN latest' = NoRow /\ shown' = NoShown
       ELSE \E sorted \in {[i \in DOMAIN frame |-> frame[perm[i]]] : perm \in DateOrders(frame)},
               q \in AppQuestions :
                latest' = LatestOf(sorted) /\ shown' = Shown(sorted, q)

\* Synthetic mode: lines 17 and 23-27, then the presentation
RunSynthetic ==
    /\ db_exists' = TRUE
    /\ mode' = "synthetic"
    /\ \E selected \in PatientsOf(synthetic_all) :
           /\ patient_filter' = selected
           /\ \E frame \in {RowsOfPatient(synthetic_all, selected)} : Present(frame)
    /\ UNCHANGED <<sessVars, key_file, reports, saved, synthetic_all, loadVars,
                   interpVars, chatVars, parseVars, synthVars>>

\* Upload mode without a click on "Save report": lines 17 and 46-49, then the
\* presentation
RunUpload ==
    /\ db_exists' = TRUE
    /\ mode' = "upload"
    /\ \E f \in {<<>>} \cup SavePatients \cup {PatientNine}, fresh \in GeneratedKeys(key_file) :
           /\ patient_filter' = f
           /\ key_file' = KeyAfterLoad(FilterOrNone(f), fresh)
           /\ \E frame \in {load_reports(FilterOrNone(f), TRUE, reports,
                                          KeyAfterLoad(FilterOrNone(f), fresh))} : Present(frame)
    /\ UNCHANGED <<sessVars, reports, saved, synthetic_all, loadVars,
                   interpVars, chatVars, parseVars, synthVars>>

\* Upload mode with a report uploaded and "Save report" clicked: lines 17 and
\* 29-49, then the presentation
RunUploadSave ==
    /\ Len(reports) < MaxUploads
    /\ mode' = "upload"
    /\ \E u \in AppSaves, fresh \in GeneratedKeys(key_file), f \in {<<>>} \cup SavePatients :
           /\ Saved(ParsedUpload[u.upload], u.patient_id, u.test_date, fresh)
           /\ patient_filter' = f
           /\ \E frame \in {load_reports(FilterOrNone(f), TRUE, reports', key_file')} :
                  Present(frame)
    /\ UNCHANGED <<sessVars, synthetic_all, loadVars, interpVars, chatVars, parseVars, synthVars>>

NextApp == RunSynthetic \/ RunUpload \/ RunUploadSave

SpecApp == InitApp /\ [][NextApp]_vars

(***************************************************************************)
(* Dashboard sessions sharing one StorageConfig.  Streamlit runs each      *)
(* session's script in a thread of its own, so the lines of                *)
(* _load_or_create_key of one session interleave with those of another.    *)
(* A session is idle or inside encrypt_payload (called by save_report) or  *)
(* decrypt_payload (called by load_reports for a stored row).              *)
(***************************************************************************)
SessionsWith(s, session) == [t \in Sessions |-> IF t = s THEN session ELSE sessions[t]]

\* The session moves to place pc holding key k
SessionAt(s, pc, k) ==
    SessionsWith(s, [pc |-> pc, op |-> sessions[s].op, key |-> k, arg |-> sessions[s].arg,
                     result |-> sessions[s].result])

\* The session returns to the script with a result
SessionDone(s, result) ==
    SessionsWith(s, [pc |-> "idle", op |-> sessions[s].op, key |-> sessions[s].key,
                     arg |-> sessions[s].arg, result |-> result])

\* What no step of a session inside the store changes
OutsideStore == <<interpVars, chatVars, parseVars, synthVars, loadVars, appVars>>

Encrypting == {t \in Sessions : sessions[t].pc # "idle" /\ sessions[t].op = "encrypt"}

\* save_report up to its call of encrypt_payload: init_db, to_csv
CallEncrypt(s) ==
    /\ sessions[s].pc = "idle"
    /\ Len(reports) + Cardinality(Encrypting) < MaxReports
    /\ db_exists' = TRUE
    /\ sessions' = SessionsWith(s, [pc |-> "exists", op |-> "encrypt", key |-> NoKey,
                                    arg |-> s, result |-> "none"])
    /\ UNCHANGED <<key_file, reports, saved, OutsideStore>>

\* load_reports at its call of decrypt_payload for a stored row
CallDecrypt(s) ==
    /\ sessions[s].pc = "idle"
    /\ \E i \in DOMAIN reports :
           sessions' = SessionsWith(s, [pc |-> "exists", op |-> "decrypt", key |-> NoKey,
                                        arg |-> i, result |-> "none"])
    /\ UNCHANGED <<key_file, db_exists, reports, saved, OutsideStore>>

\* if os.path.exists(key_path)
KeyFileExists(s) ==
    /\ sessions[s].pc = "exists"
    /\ sessions' = SessionAt(s, IF key_file # NoKey THEN "read" ELSE "generate", NoKey)
    /\ UNCHANGED <<key_file, db_exists, reports, saved, OutsideStore>>

\* with open(key_path, "rb") as f: return f.read()
ReadKey(s) ==
    /\ sessions[s].pc = "read"
    /\ sessions' = SessionAt(s, "fernet", key_file)
    /\ UNCHANGED <<key_file, db_exists, reports, saved, OutsideStore>>

\* key = Fernet.generate_key(): a key no one has yet
GenerateKey(s) ==
    /\ sessions[s].pc = "generate"
    /\ \E k \in FernetKeys \ ({key_file} \cup {sessions[t].key : t \in Sessions}) :
           sessions' = SessionAt(s, "open", k)
    /\ UNCHANGED <<key_file, db_exists, reports, saved, OutsideStore>>

\* open(key_path, "wb"): the file is there, and empty
OpenKeyFile(s) ==
    /\ sessions[s].pc = "open"
    /\ key_file' = EmptyKey
    /\ sessions' = SessionAt(s, "write", sessions[s].key)
    /\ UNCHANGED <<db_exists, reports, saved, OutsideStore>>

\* f.write(key), and the file closed
WriteKey(s) ==
    /\ sessions[s].pc = "write"
    /\ key_file' = sessions[s].key
    /\ sessions' = SessionAt(s, "fernet", sessions[s].key)
    /\ UNCHANGED <<db_exists, reports, saved, OutsideStore>>

\* Fernet(key) and f.encrypt followed by the INSERT of save_report, or
\* f.decrypt; Fernet raises ValueError for a key that is not 32 bytes
UseKey(s) ==
    /\ sessions[s].pc = "fernet"
    /\ IF sessions[s].key = EmptyKey
       THEN /\ sessions' = SessionDone(s, "ValueError")
            /\ UNCHANGED <<reports, saved>>
       ELSE IF sessions[s].op = "encrypt"
       THEN /\ reports' = Append(reports, ReportRow(Len(reports) + 1, PatientOne, sessions[s].arg,
                                                     ParsedUpload[UploadC], sessions[s].key))
            /\ saved' = Append(saved, [frame |-> ParsedUpload[UploadC], patient_id |-> PatientOne,
                                       test_date |-> sessions[s].arg])
            /\ sessions' = SessionDone(s, "stored")
       ELSE /\ sessions' = SessionDone(s,
                   IF decrypt_payload(reports[sessions[s].arg].encrypted_csv, sessions[s].key)
                          = InvalidToken
                   THEN "InvalidToken" ELSE "decrypted")
            /\ UNCHANGED <<reports, saved>>
    /\ UNCHANGED <<key_file, db_exists, OutsideStore>>

InitKey ==
    /\ StoreEmpty /\ LoadIdle /\ SessIdle
    /\ InterpIdle /\ ChatIdle /\ ParseIdle /\ SynthIdle /\ AppIdle

NextKey ==
    \/ \E s \in Sessions : CallEncrypt(s)
    \/ \E s \in Sessions : CallDecrypt(s)
    \/ \E s \in Sessions : KeyFileExists(s)
    \/ \E s \in Sessions : ReadKey(s)
    \/ \E s \in Sessions : GenerateKey(s)
    \/ \E s \in Sessions : OpenKeyFile(s)
    \/ \E s \in Sessions : WriteKey(s)
    \/ \E s \in Sessions : UseKey(s)

SpecKey == InitKey /\ [][NextKey]_vars

HasNum(r, f) == f \in DOMAIN r /\ r[f].k = "num"

FemaleSpellings ==
    {<<"F","e","m","a","l","e">>, <<"f","e","m","a","l","e">>, <<"F","E","M","A","L","E">>}

\* The anemia threshold of a row: 12 for a female patient, 13 otherwise.
AnemiaThreshold(r) ==
    IF "Gender" \in DOMAIN r /\ r["Gender"].k = "str" /\ r["Gender"].s \in FemaleSpellings
    THEN 12 * Den ELSE 13 * Den

Interpreted == insight # NoInsight

\* C1: the severity score is an integer in 0..100 for every row, fields
\* missing or not, and the Insight carries that same score.
C1_SeverityClipped ==
    Interpreted =>
        /\ insight.severity_score \in 0..100
        /\ insight.severity_score = severity_score(row)
        /\ (RawScore(row) >= 100 * 100 * Den => insight.severity_score = 100)
        /\ (RawScore(row) < 100 * 100 * Den
                => insight.severity_score = RawScore(row) \div (100 * Den))

\* C1 witness: a row without Age and without LDL whose weighted sum exceeds
\* 100 has been interpreted and scored 100.
C1_Witness ==
    /\ Interpreted
    /\ "Age" \notin DOMAIN row /\ "LDL" \notin DOMAIN row
    /\ RawScore(row) > 100 * 100 * Den
    /\ insight.severity_score = 100

\* C2: each flag is the comparison of a measurement with its threshold:
\* infection iff WBC > 11, cardio iff LDL > 130 or Triglycerides > 150 or
\* Cholesterol > 200, anemia iff Hemoglobin is below the anemia threshold;
\* a missing measurement (absent or NaN) raises nothing.
C2_FlagsAreThresholds ==
    Interpreted =>
        /\ row_flags.infection \in BOOLEAN /\ row_flags.cardio \in BOOLEAN
        /\ row_flags.anemia \in BOOLEAN
        /\ row_flags.infection <=> (HasNum(row, "WBC") /\ row["WBC"].n > 11 * Den)
        /\ row_flags.cardio <=>
              \/ (HasNum(row, "LDL") /\ row["LDL"].n > 130 * Den)
              \/ (HasNum(row, "Triglycerides") /\ row["Triglycerides"].n > 150 * Den)
              \/ (HasNum(row, "Cholesterol") /\ row["Cholesterol"].n > 200 * Den)
        /\ row_flags.anemia <=>
              (HasNum(row, "Hemoglobin") /\ row["Hemoglobin"].n < AnemiaThreshold(row))

\* C2 witness: a row with WBC exactly 11 and LDL missing, Triglycerides over
\* 150: infection stays down, cardio is raised.
C2_Witness ==
    /\ Interpreted
    /\ HasNum(row, "WBC") /\ row["WBC"].n = 11 * Den
    /\ ~HasNum(row, "LDL") /\ HasNum(row, "Triglycerides")
    /\ ~row_flags.infection /\ row_flags.cardio

\* C7: a row whose Hemoglobin is below the anemia threshold gets
\* anemia_risk > 0.5, the below-range sentence and the iron tip; a row at or
\* above the threshold gets anemia_risk < 0.5.
C7_LowHemoglobinSignal ==
    Interpreted =>
        /\ (HasNum(row, "Hemoglobin") /\ row["Hemoglobin"].n < AnemiaThreshold(row))
              => /\ insight.anemia_risk > 50
                 /\ insight.narrative[1].text = SayAnemia
                 /\ \E i \in DOMAIN insight.diet_tips : insight.diet_tips[i] = TipIron
        /\ (HasNum(row, "Hemoglobin") /\ row["Hemoglobin"].n >= AnemiaThreshold(row))
              => insight.anemia_risk < 50

\* C7 witness: a "FEMALE" row with Hemoglobin 11.99 and a raised cardio flag
\* has been interpreted as anemic.
C7_Witness ==
    /\ Interpreted
    /\ "Gender" \in DOMAIN row /\ row["Gender"].s = <<"F","E","M","A","L","E">>
    /\ HasNum(row, "Hemoglobin") /\ row["Hemoglobin"].n = 1199
    /\ row_flags.cardio
    /\ insight.anemia_risk = 75

Asked == reply # NoReply

Topics == {"wbc", "hemoglobin", "lipid"}

Keywords(t) ==
    CASE t = "wbc" -> {KwWbc}
      [] t = "hemoglobin" -> {KwHemoglobin, KwAnemia}
      [] t = "lipid" -> {KwCholesterol, KwLdl}

TopicReplies(t) ==
    CASE t = "wbc" -> {ReplyNoWbc, ReplyWbcHigh, ReplyWbcFine}
      [] t = "hemoglobin" -> {ReplyNoHb, ReplyHb}
      [] t = "lipid" -> {ReplyNoLipid, ReplyLipid}
      [] t = "fallback" -> {ReplyFallback}

TopicNeeds(t) ==
    CASE t = "wbc" -> {"WBC"}
      [] t = "hemoglobin" -> {"Hemoglobin"}
      [] t = "lipid" -> {"LDL", "Cholesterol"}
      [] t = "fallback" -> {}

\* The replies that contain "couldn't read"
CouldntRead == {ReplyNoWbc, ReplyNoHb, ReplyNoLipid}

\* The question contains a keyword of topic t, in any letter case.
Mentions(q, t) == \E kw \in Keywords(t) : Contains(Lower(q), kw)

\* The first topic, in the order WBC, hemoglobin/anemia, cholesterol/LDL,
\* that the question mentions.
FirstTopic(q) ==
    IF Mentions(q, "wbc") THEN "wbc"
    ELSE IF Mentions(q, "hemoglobin") THEN "hemoglobin"
    ELSE IF Mentions(q, "lipid") THEN "lipid"
    ELSE "fallback"

\* C5 as stated: every question that contains the keyword of a topic gets
\* that topic's answer, and a question with no keyword gets the fallback.
C5_EveryMentionedTopicAnswers ==
    Asked =>
        /\ \A t \in Topics : Mentions(question, t) => reply.text \in TopicReplies(t)
        /\ (\A t \in Topics : ~Mentions(question, t)) => reply.text = ReplyFallback

\* C5 amended: there are three topics, tested in the order WBC,
\* hemoglobin/anemia, cholesterol/LDL by case-insensitive substring match; the
\* answer is that of the first topic the question mentions, and the fallback
\* sentence when it mentions none.
C5_FirstMentionedTopicAnswers ==
    Asked =>
        /\ reply.text \in TopicReplies(FirstTopic(question))
        /\ (\A t \in Topics : ~Mentions(question, t)) <=> reply.text = ReplyFallback

\* C5 witness: a question naming WBC in capitals and anemia was answered
\* about WBC.
C5_Witness ==
    /\ Asked
    /\ Contains(question, <<"W","B","C">>) /\ Mentions(question, "hemoglobin")
    /\ reply.text \in TopicReplies("wbc")

\* A value the chatbot cannot read: no such field, None, an empty (NaN) cell,
\* or text that is no number.
Unreadable(r, f) ==
    \/ f \notin DOMAIN r
    \/ r[f].k \in {"none", "nan"}
    \/ (r[f].k = "str" /\ ~IsDecimal(r[f].s))

\* C6 as stated: when a value needed by the topic the question is answered
\* under is missing, None or no number, the reply contains "couldn't read".
C6_UnreadableIsReported ==
    Asked =>
        ((\E f \in TopicNeeds(FirstTopic(question)) : Unreadable(latest_row, f))
            => reply.text \in CouldntRead)

\* The lines of the report text that give field f, and the value the first
\* of them writes
FieldLines(f) == {i \in DOMAIN report_lines : ReportLines[report_lines[i]].field = f}

Written(f) ==
    ReportLines[report_lines[CHOOSE i \in FieldLines(f) : \A h \in FieldLines(f) : i <= h]].value

\* C8: parse_report_text returns one row; a field whose label is followed by
\* a value somewhere in the text holds the first such value, normalised; a
\* measurement not given is absent from the row; Patient_ID, Gender and Age
\* not given are "P-UNKNOWN", "Female" and 30.
C8_ParseExtractsFields ==
    parsed # NotParsed =>
        /\ Len(parsed) = 1
        /\ \A i \in DOMAIN ReportFields :
            LET f == ReportFields[i]
            IN  IF FieldLines(f) # {}
                THEN f \in DOMAIN parsed[1] /\ parsed[1][f] = Written(f)
                ELSE IF f = "Patient_ID"
                THEN f \in DOMAIN parsed[1]
                     /\ parsed[1][f] = Str(<<"P","-","U","N","K","N","O","W","N">>)
                ELSE IF f = "Gender"
                THEN f \in DOMAIN parsed[1] /\ parsed[1][f] = Str(<<"F","e","m","a","l","e">>)
                ELSE IF f = "Age"
                THEN f \in DOMAIN parsed[1] /\ parsed[1][f] = Num(30 * Den)
                ELSE f \notin DOMAIN parsed[1]

\* C8 witness: a text whose first line names hemoglobin without a value and
\* whose second line gives 11.2 was parsed to a row with Hemoglobin 11.2, no
\* WBC and the default patient.
C8_Witness ==
    /\ parsed # NotParsed
    /\ report_text = TextOf(<<7, 6>>)
    /\ parsed[1]["Hemoglobin"] = Num(1120)
    /\ "WBC" \notin DOMAIN parsed[1]
    /\ parsed[1]["Patient_ID"].s = <<"P","-","U","N","K","N","O","W","N">>

Generated == dataset # NotGenerated

\* C9: for n above the size of the patient pool the data set has n rows, some
\* patient has two or more rows, the rows of one patient carry one Age and
\* one Gender, and the rows are in the order of Patient_ID and, within a
\* patient, of Test_Date.
C9_SyntheticHistories ==
    (Generated /\ synth_n > patient_pool(synth_n)) =>
        /\ Len(dataset) = synth_n
        /\ \E i, j \in DOMAIN dataset :
               i < j /\ dataset[i]["Patient_ID"] = dataset[j]["Patient_ID"]
        /\ \A i, j \in DOMAIN dataset :
               dataset[i]["Patient_ID"] = dataset[j]["Patient_ID"]
                   => /\ dataset[i]["Age"] = dataset[j]["Age"]
                      /\ dataset[i]["Gender"] = dataset[j]["Gender"]
        /\ \A i \in 1..(Len(dataset) - 1) :
               IF dataset[i]["Patient_ID"] = dataset[i + 1]["Patient_ID"]
               THEN dataset[i]["Test_Date"].n <= dataset[i + 1]["Test_Date"].n
               ELSE StrLess(dataset[i]["Patient_ID"].s, dataset[i + 1]["Patient_ID"].s)

\* C9 witness: a generated data set with more rows than patients in which a
\* patient has two reports of different dates and the dates do not rise over
\* the whole data set.
C9_Witness ==
    /\ Generated /\ synth_n > patient_pool(synth_n)
    /\ \E i \in 1..(Len(dataset) - 1) :
           /\ dataset[i]["Patient_ID"] = dataset[i + 1]["Patient_ID"]
           /\ dataset[i]["Test_Date"].n < dataset[i + 1]["Test_Date"].n
    /\ \E i \in 1..(Len(dataset) - 1) :
           dataset[i]["Test_Date"].n > dataset[i + 1]["Test_Date"].n

\* The rows load_reports(p) is to return: the rows of the frames saved under
\* p (of all frames when p is None or empty), in the order of the calls of
\* save_report, each with the call it came from
ExpectedRows(p) ==
    LET keep(i) == ~(p.k = "str" /\ p.s # <<>>) \/ saved[i].patient_id = p.s
        pick[i \in 0..Len(saved)] ==
            IF i = 0 THEN <<>>
            ELSE IF keep(i)
            THEN pick[i - 1] \o [j \in DOMAIN saved[i].frame |->
                                    [call |-> saved[i], row |-> saved[i].frame[j]]]
            ELSE pick[i - 1]
    IN  pick[Len(saved)]

Loaded == loaded # NotLoaded

\* C3 as stated: every row of table reports holds the CSV of the saved frame
\* as a Fernet token under the stored key, and no content of the saved
\* report can be read from a plaintext column of the row.
C3_NothingInPlaintext ==
    \A i \in DOMAIN reports :
        /\ reports[i].encrypted_csv = Token(key_file, to_csv(saved[i].frame))
        /\ \A j \in DOMAIN saved[i].frame : \A c \in DOMAIN saved[i].frame[j] :
               \/ CellText(saved[i].frame[j][c]) = <<>>
               \/ CellText(saved[i].frame[j][c]) # reports[i].patient_id

\* C10: load_reports(p) returns the rows of the frames saved under p (of all
\* frames for None or ""), in insertion order, every number of a saved row
\* unchanged, Patient_ID and Test_Date those given to save_report, and a
\* column the saved row does not have empty; it returns the empty frame
\* when the database file does not exist or no row matches.
C10_SaveLoadRoundTrip ==
    Loaded =>
        LET want == ExpectedRows(load_arg)
        IN  /\ Len(loaded) = Len(want)
            /\ (~db_exists => loaded = <<>>)
            /\ \A j \in DOMAIN want :
                /\ j \in DOMAIN loaded
                /\ loaded[j]["Patient_ID"] = Str(want[j].call.patient_id)
                /\ loaded[j]["Test_Date"] = Date(want[j].call.test_date)
                /\ \A c \in DOMAIN want[j].row \ {"Patient_ID", "Test_Date"} :
                       want[j].row[c].k = "num"
                           => c \in DOMAIN loaded[j] /\ loaded[j][c] = want[j].row[c]
                /\ \A c \in DOMAIN loaded[j] \ DOMAIN want[j].row : loaded[j][c] = NaN

\* C10 witness: after a report saved for P-1 and the same upload, whose text
\* names P-1, saved for P-2 at another date, load_reports("P-2") returned the
\* one row of the second call with its hemoglobin and P-2 as Patient_ID.
C10_Witness ==
    /\ Loaded /\ load_arg = Str(PatientTwo)
    /\ Len(saved) = 2
    /\ saved[1].patient_id = PatientOne
    /\ saved[2] = [frame |-> ParsedUpload[UploadA], patient_id |-> PatientTwo, test_date |-> 2]
    /\ Len(loaded) = 1
    /\ loaded[1]["Patient_ID"] = Str(PatientTwo)
    /\ loaded[1]["Hemoglobin"] = Num(1120)

\* C4 as stated: in every run that shows a report, the frame holds reports of
\* one patient only, and the latest row is a report of the frame with the
\* greatest Test_Date.
C4_OnePatientPerRun ==
    df # <<>> =>
        /\ \A i, j \in DOMAIN df : df[i]["Patient_ID"] = df[j]["Patient_ID"]
        /\ \E i \in DOMAIN df : df[i] = latest
        /\ \A i \in DOMAIN df : df[i]["Test_Date"].n <= latest["Test_Date"].n

Quiet == \A s \in Sessions : sessions[s].pc = "idle"

\* C11 as stated: whatever the interleaving of the sessions, no call of
\* decrypt_payload finds a stored blob encrypted under another key than
\* the one it loads, and once the sessions have returned every stored blob
\* decrypts under the key in the key file.
C11_BlobsStayDecryptable ==
    /\ \A s \in Sessions : sessions[s].result # "InvalidToken"
    /\ Quiet => \A i \in DOMAIN reports :
                    decrypt_payload(reports[i].encrypted_csv, key_file) # InvalidToken

\* The hemoglobin of a report, NaN when the report has none
HbOf(r) == IF "Hemoglobin" \in DOMAIN r THEN r["Hemoglobin"] ELSE NaN

\* Both values are numbers and the first is the greater
Falls(a, b) == a.k = "num" /\ b.k = "num" /\ a.n > b.n

\* The ways to put the reports of the last run in the order of Test_Date
ByDate ==
    {perm \in Permutations(DOMAIN df) :
        \A i, j \in DOMAIN df :
            i < j => df[perm[i]]["Test_Date"].n <= df[perm[j]]["Test_Date"].n}

\* In the order perm the hemoglobin falls at each of the last two steps
Declined(perm) ==
    /\ Len(df) >= 3
    /\ Falls(HbOf(df[perm[Len(df) - 2]]), HbOf(df[perm[Len(df) - 1]]))
    /\ Falls(HbOf(df[perm[Len(df) - 1]]), HbOf(df[perm[Len(df)]]))

=============================================================================
